---------------------------- MODULE Spec2Model ----------------------------
(***************************************************************************)
(* Eskola RolePlayBot backend (src/server.js, the revision that starts at  *)
(* line 143: persona realism + receptivity + anti-repeat).                 *)
(*                                                                         *)
(* A JavaScript string is a tuple of one-character strings, so that        *)
(* replace, join, slice and the regular-expression test are computed       *)
(* character by character.  The bullet character U+2022 of the separator   *)
(* is written "U+2022".  Numbers are kept in halves (Num(3) is 1.5), which *)
(* is enough to tell whole dial values from fractional ones.               *)
(***************************************************************************)
EXTENDS Integers, Sequences, FiniteSets, TLC

VARIABLES
    ALLOW_LOCAL_FILE,   \* line 155, fixed at startup
    OPENAI_API_KEY,     \* line 198, fixed at startup
    pc,                 \* position of the request in flight
    stage,              \* how far the request got: express.json, cors, the handler
    req,                \* the request in flight: origin header and raw body
    res,                \* the response sent to the caller
    sent,               \* number of responses written for the request in flight
    outbound,           \* body of the call made to the completion endpoint
    oaiRes,             \* what the completion endpoint answered
    logged,             \* what console.error recorded for the request
    gate,               \* origin callback applied to one origin
    hint,               \* antiRepeatList applied to one message list
    tune                \* receptivityTuning applied to one persona and dial

vars == <<ALLOW_LOCAL_FILE, OPENAI_API_KEY, pc, stage, req, res, sent, outbound, oaiRes,
          logged, gate, hint, tune>>

---------------------------------------------------------------------------
(* JavaScript values *)

Undefined == [t |-> "undefined"]
Null == [t |-> "null"]
NaN == [t |-> "NaN"]
Bool(b) == [t |-> "boolean", b |-> b]
Num(h) == [t |-> "number", halves |-> h]
Str(s) == [t |-> "string", s |-> s]
Arr(a) == [t |-> "array", items |-> a]
Obj(o) == [t |-> "object", fields |-> o]
\* a function object or Object.prototype, reached through the prototype chain
Native(n) == [t |-> "native", name |-> n]

\* halves per unit
Scale == 2

\* ToBoolean: what `!x`, `x || y` and `if (x)` see
Truthy(v) ==
    CASE v.t = "undefined" -> FALSE
      [] v.t = "null" -> FALSE
      [] v.t = "NaN" -> FALSE
      [] v.t = "boolean" -> v.b
      [] v.t = "number" -> v.halves # 0
      [] v.t = "string" -> v.s # <<>>
      [] OTHER -> TRUE

\* a || b
Or(a, b) == IF Truthy(a) THEN a ELSE b

\* Property names every object literal inherits from Object.prototype
ObjectPrototypeKeys ==
    { <<"c","o","n","s","t","r","u","c","t","o","r">>, <<"t","o","S","t","r","i","n","g">>, <<"v","a","l","u","e","O","f">>, <<"h","a","s","O","w","n","P","r","o","p","e","r","t","y">>, <<"_","_","p","r","o","t","o","_","_">> }  \* "constructor", "toString", "valueOf", "hasOwnProperty", "__proto__"

\* obj[key] on an object literal with a string key: own property, else the
\* inherited one, else undefined
Get(fields, key) ==
    IF key \in DOMAIN fields THEN fields[key]
    ELSE IF key \in ObjectPrototypeKeys THEN Native(key)
    ELSE Undefined

\* x?.name for a value parsed from JSON
OptGet(v, key) ==
    IF v.t = "object" THEN Get(v.fields, key) ELSE Undefined

---------------------------------------------------------------------------
(* Origin gate, lines 155-183 *)

\* process.env.ALLOW_LOCAL_FILE as the operator may set it
EnvFlagValues == { Undefined, Str(<<>>), Str(<<"t","r","u","e">>), Str(<<"T","R","U","E">>), Str(<<"f","a","l","s","e">>), Str(<<"1">>) }  \* "true", "TRUE", "false", "1"

LowerChar(c) ==
    CASE c = "T" -> "t" [] c = "R" -> "r" [] c = "U" -> "u" [] c = "E" -> "e"
      [] c = "F" -> "f" [] c = "A" -> "a" [] c = "L" -> "l" [] c = "S" -> "s"
      [] OTHER -> c

toLowerCase(s) == [i \in 1..Len(s) |-> LowerChar(s[i])]

\* (process.env.ALLOW_LOCAL_FILE || "true").toLowerCase() === "true"
AllowLocalFileOf(env) == toLowerCase(Or(env, Str(<<"t","r","u","e">>)).s) = <<"t","r","u","e">>  \* "true", "true"

PROD_ALLOWED_ORIGINS == <<
    <<"h","t","t","p","s",":","/","/","s","t","a","t","i","c","1",".","s","q","u","a","r","e","s","p","a","c","e",".","c","o","m">>,  \* "https://static1.squarespace.com"
    <<"h","t","t","p","s",":","/","/","*",".","s","q","u","a","r","e","s","p","a","c","e",".","c","o","m">>,  \* "https://*.squarespace.com"
    <<"h","t","t","p","s",":","/","/","*",".","s","q","u","a","r","e","s","p","a","c","e","-","c","d","n",".","c","o","m">>,  \* "https://*.squarespace-cdn.com"
    <<"h","t","t","p","s",":","/","/","e","s","k","o","l","a",".","c","o","m">>,  \* "https://eskola.com"
    <<"h","t","t","p","s",":","/","/","w","w","w",".","e","s","k","o","l","a",".","c","o","m">> >>  \* "https://www.eskola.com"

DEV_ALLOWED ==
    IF ALLOW_LOCAL_FILE
    THEN << <<"n","u","l","l">>, <<"h","t","t","p",":","/","/","l","o","c","a","l","h","o","s","t",":","3","0","0","0">>, <<"h","t","t","p",":","/","/","1","2","7",".","0",".","0",".","1",":","5","5","0","0">>, <<"h","t","t","p",":","/","/","l","o","c","a","l","h","o","s","t",":","5","5","0","0">> >>  \* "null", "http://localhost:3000", "http://127.0.0.1:5500", "http://localhost:5500"
    ELSE <<>>

ALLOWED_ORIGINS == PROD_ALLOWED_ORIGINS \o DEV_ALLOWED

RECURSIVE ReplaceAll(_, _, _)
\* s.replace(/c/g, by) for a one-character pattern c
ReplaceAll(s, c, by) ==
    IF s = <<>> THEN <<>>
    ELSE (IF Head(s) = c THEN by ELSE <<Head(s)>>) \o ReplaceAll(Tail(s), c, by)

includes(s, c) == \E i \in 1..Len(s) : s[i] = c

Range(s) == { s[i] : i \in 1..Len(s) }

EscapeDotsDropped(o) == o
\* o.replace(/\./g, "\\.")
EscapeDots(o) == ReplaceAll(o, ".", <<"\\", ".">>)

\* .replace(/\*/g, ".*")
ExpandStars(o) == ReplaceAll(o, "*", <<".", "*">>)

\* "^" + o.replace(/\./g, "\\.").replace(/\*/g, ".*") + "$"
RegExpSource(o) == <<"^">> \o ExpandStars(EscapeDots(o)) \o <<"$">>

RECURSIVE Atoms(_)
\* The pattern between the anchors, as a sequence of atoms: an escaped
\* character or a plain one is a literal, an unescaped "." is any character,
\* and a following "*" makes the atom repeat zero or more times.
Atoms(p) ==
    IF p = <<>> THEN <<>>
    ELSE LET esc  == Head(p) = "\\" /\ Len(p) >= 2
             n    == IF esc THEN 2 ELSE 1
             ch   == IF esc THEN p[2] ELSE p[1]
             any  == ~esc /\ p[1] = "."
             star == Len(p) > n /\ p[n + 1] = "*"
             used == IF star THEN n + 1 ELSE n
         IN  << [any |-> any, ch |-> ch, star |-> star] >>
                 \o Atoms(SubSeq(p, used + 1, Len(p)))

\* "." matches any character but a line terminator
AtomMatches(a, c) == IF a.any THEN c \notin {"\n", "\r"} ELSE a.ch = c

RECURSIVE MatchFrom(_, _, _, _, _)
\* Whether atoms i.. can match s from position j on: up to the end of s when
\* toEnd, up to any position otherwise
MatchFrom(as, i, s, j, toEnd) ==
    IF i > Len(as) THEN (toEnd => j = Len(s) + 1)
    ELSE IF as[i].star
         THEN \/ MatchFrom(as, i + 1, s, j, toEnd)
              \/ /\ j <= Len(s)
                 /\ AtomMatches(as[i], s[j])
                 /\ MatchFrom(as, i, s, j + 1, toEnd)
         ELSE /\ j <= Len(s)
              /\ AtomMatches(as[i], s[j])
              /\ MatchFrom(as, i + 1, s, j + 1, toEnd)

\* new RegExp(src).test(s) for a source of the shape the gate builds; an
\* anchor that is missing lets the match start or end anywhere
RegExpTest(src, s) ==
    LET atStart == Len(src) >= 1 /\ src[1] = "^"
        atEnd   == Len(src) >= 1 /\ src[Len(src)] = "$"
        body    == SubSeq(src, IF atStart THEN 2 ELSE 1,
                               IF atEnd THEN Len(src) - 1 ELSE Len(src))
        as      == Atoms(body)
    IN  \E a \in 1..(IF atStart THEN 1 ELSE Len(s) + 1) : MatchFrom(as, 1, s, a, atEnd)

\* the callback of ALLOWED_ORIGINS.some(...), lines 172-179
EntryAllows(o, origin) ==
    \/ o = origin
    \/ /\ includes(o, "*")
       /\ RegExpTest(RegExpSource(o), origin)

\* lines 171-180: TRUE when cb(null, true), FALSE when cb(new Error(...), false)
OriginAllowed(origin) ==
    IF ~Truthy(origin) THEN TRUE
    ELSE \E k \in 1..Len(ALLOWED_ORIGINS) : EntryAllows(ALLOWED_ORIGINS[k], origin.s)

---------------------------------------------------------------------------
(* Conversions of JavaScript values *)

Digit(n) == << "0", "1", "2", "3", "4", "5", "6", "7", "8", "9" >>[n + 1]

DigitValue(c) == CHOOSE n \in 0..9 : Digit(n) = c

IsDigit(c) == \E n \in 0..9 : Digit(n) = c

RECURSIVE NatToString(_)
NatToString(n) == IF n < 10 THEN <<Digit(n)>> ELSE NatToString(n \div 10) \o <<Digit(n % 10)>>

\* String(x) of a number kept in halves: 3 halves is "1.5"
NumberToString(h) ==
    LET a == IF h < 0 THEN -h ELSE h
    IN  (IF h < 0 THEN <<"-">> ELSE <<>>) \o NatToString(a \div Scale)
            \o (IF a % Scale = 0 THEN <<>> ELSE <<".", "5">>)

RECURSIVE DigitsValue(_)
DigitsValue(s) == IF s = <<>> THEN 0 ELSE 10 * DigitsValue(SubSeq(s, 1, Len(s) - 1)) + DigitValue(s[Len(s)])

\* Number(s) of a string: "" is 0, a decimal numeral with an optional sign
\* and an optional fraction .0 or .5 is that number, anything else is NaN
StringToNumber(s) ==
    IF s = <<>> THEN Num(0)
    ELSE LET neg  == s[1] = "-"
             u    == IF neg THEN Tail(s) ELSE s
             frac == Len(u) >= 3 /\ u[Len(u) - 1] = "." /\ u[Len(u)] \in {"0", "5"}
             ip   == IF frac THEN SubSeq(u, 1, Len(u) - 2) ELSE u
             ok   == ip # <<>> /\ \A i \in 1..Len(ip) : IsDigit(ip[i])
             h    == Scale * DigitsValue(ip) + (IF frac /\ u[Len(u)] = "5" THEN 1 ELSE 0)
         IN  IF ok THEN Num(IF neg THEN -h ELSE h) ELSE NaN

\* Number(v)
ToNumber(v) ==
    CASE v.t = "undefined" -> NaN
      [] v.t = "null" -> Num(0)
      [] v.t = "boolean" -> Num(IF v.b THEN Scale ELSE 0)
      [] v.t = "number" -> v
      [] v.t = "NaN" -> NaN
      [] v.t = "string" -> StringToNumber(v.s)
      [] v.t = "object" -> NaN
      [] v.t = "native" -> NaN

\* String(v), as a template literal and Array.prototype.join's callers see it
StringOf(v) ==
    CASE v.t = "undefined" -> <<"u","n","d","e","f","i","n","e","d">>  \* "undefined"
      [] v.t = "null" -> <<"n","u","l","l">>  \* "null"
      [] v.t = "NaN" -> <<"N","a","N">>  \* "NaN"
      [] v.t = "boolean" -> IF v.b THEN <<"t","r","u","e">> ELSE <<"f","a","l","s","e">>  \* "true", "false"
      [] v.t = "number" -> NumberToString(v.halves)
      [] v.t = "string" -> v.s
      [] v.t = "object" -> <<"[","o","b","j","e","c","t"," ","O","b","j","e","c","t","]">>  \* "[object Object]"
      [] v.t = "native" ->
            IF v.name = <<"_","_","p","r","o","t","o","_","_">> THEN <<"[","o","b","j","e","c","t"," ","O","b","j","e","c","t","]">>  \* "__proto__", "[object Object]"
            ELSE <<"f","u","n","c","t","i","o","n"," ">> \o (IF v.name = <<"c","o","n","s","t","r","u","c","t","o","r">> THEN <<"O","b","j","e","c","t">> ELSE v.name)  \* "function ", "constructor", "Object"
                     \o <<"(",")"," ","{"," ","[","n","a","t","i","v","e"," ","c","o","d","e","]"," ","}">>  \* "() { [native code] }"

\* Math.min(a, b) and Math.max(a, b) on numbers
MathMin(a, b) == IF a.t = "NaN" \/ b.t = "NaN" THEN NaN ELSE IF a.halves <= b.halves THEN a ELSE b
MathMax(a, b) == IF a.t = "NaN" \/ b.t = "NaN" THEN NaN ELSE IF a.halves >= b.halves THEN a ELSE b

\* list[d]: the element of an array at a numeric key, undefined when the key
\* is no index of the array or the value is no array
Index(list, d) ==
    IF /\ list.t = "array"
       /\ d.t = "number"
       /\ d.halves % Scale = 0
       /\ d.halves \div Scale \in 0..(Len(list.items) - 1)
    THEN list.items[d.halves \div Scale + 1]
    ELSE Undefined

---------------------------------------------------------------------------
(* antiRepeatList, lines 205-210 *)

\* default of the maxChars parameter
DefaultMaxChars == 1200

\* number of assistant entries kept by slice(0, 6)
AntiRepeatKeep == 6

Separator == <<" ","U+2022"," ">>  \* " U+2022 "

Reverse(s) == [i \in 1..Len(s) |-> s[Len(s) + 1 - i]]

\* an element of the array join() writes: undefined and null are written empty
JoinItem(v) == IF v.t \in {"undefined", "null"} THEN <<>> ELSE StringOf(v)

RECURSIVE Join(_, _)
\* items.join(sep)
Join(items, sep) ==
    IF items = <<>> THEN <<>>
    ELSE IF Len(items) = 1 THEN JoinItem(items[1])
    ELSE JoinItem(items[1]) \o sep \o Join(Tail(items), sep)

\* s.slice(0, n) of an array
SliceFirst(s, n) == SubSeq(s, 1, IF Len(s) < n THEN Len(s) ELSE n)

\* text.slice(-n) of a string
SliceLast(s, n) == IF Len(s) <= n THEN s ELSE SubSeq(s, Len(s) - n + 1, Len(s))

IsAssistant(m) == OptGet(m, <<"r","o","l","e">>) = Str(<<"a","s","s","i","s","t","a","n","t">>)  \* "role", "assistant"

\* [...messages].reverse().filter(m => m.role === "assistant").slice(0, 6)
LastAssistant(messages) ==
    SliceFirst(SelectSeq(Reverse(messages), IsAssistant), AntiRepeatKeep)

\* last.map(m => m.content).join(" • ")
JoinedText(messages) ==
    LET last == LastAssistant(messages)
    IN  Join([i \in 1..Len(last) |-> OptGet(last[i], <<"c","o","n","t","e","n","t">>)], Separator)  \* "content"

antiRepeatList(messages, maxChars) ==
    LET text == JoinedText(messages)
        cut  == IF Len(text) > maxChars THEN SliceLast(text, maxChars) ELSE text
    IN  IF cut = <<>> THEN <<"(","n","o","n","e",")">> ELSE cut  \* "(none)"

---------------------------------------------------------------------------
(* receptivityTuning, lines 212-236 *)

\* The tone tables; each directive is written by its label, the text before
\* the colon (lines 215-232)
ToneMap ==
    ( <<"c","o","l","d","_","p","r","o","s","p","e","c","t">> :> Arr(<< Str(<<"U","l","t","r","a","-","g","u","a","r","d","e","d">>), Str(<<"G","u","a","r","d","e","d">>), Str(<<"B","a","l","a","n","c","e","d">>), Str(<<"O","p","e","n">>) >>) )  \* "cold_prospect", "Ultra-guarded", "Guarded", "Balanced", "Open"
    @@ ( <<"q","u","a","l","i","f","i","e","d","_","l","e","a","d">> :> Arr(<< Str(<<"G","u","a","r","d","e","d","-","a","n","a","l","y","t","i","c","a","l">>), Str(<<"C","o","o","l","-","a","n","a","l","y","t","i","c","a","l">>), Str(<<"N","e","u","t","r","a","l","-","a","n","a","l","y","t","i","c","a","l">>), Str(<<"W","a","r","m","-","a","n","a","l","y","t","i","c","a","l">>) >>) )  \* "qualified_lead", "Guarded-analytical", "Cool-analytical", "Neutral-analytical", "Warm-analytical"
    @@ ( <<"e","x","i","s","t","i","n","g","_","c","u","s","t","o","m","e","r">> :> Arr(<< Str(<<"G","u","a","r","d","e","d","-","p","r","a","c","t","i","c","a","l">>), Str(<<"C","o","o","l","-","p","r","a","c","t","i","c","a","l">>), Str(<<"N","e","u","t","r","a","l","-","p","r","a","c","t","i","c","a","l">>), Str(<<"W","a","r","m","-","p","r","a","c","t","i","c","a","l">>) >>) )  \* "existing_customer", "Guarded-practical", "Cool-practical", "Neutral-practical", "Warm-practical"

\* the key a value is looked up under
PropertyKey(v) == StringOf(v)

\* Math.max(0, Math.min(3, Number(dial) || 0))
DialOf(dial) == MathMax(Num(0), MathMin(Num(3 * Scale), Or(ToNumber(dial), Num(0))))

\* map[persona] || map.cold_prospect
ToneList(persona) == Or(Get(ToneMap, PropertyKey(persona)), ToneMap[<<"c","o","l","d","_","p","r","o","s","p","e","c","t">>])  \* "cold_prospect"

receptivityTuning(persona, dial) == Index(ToneList(persona), DialOf(dial))

---------------------------------------------------------------------------
(* Values at rest of the variables a specification does not use *)

NoRequest == [origin |-> Undefined, body |-> Undefined]
NoResponse == [status |-> 0, body |-> Undefined]
NoGate == [origin |-> Undefined, verdict |-> "unused"]
NoHint == [messages |-> <<>>, out |-> Null]
NoTune == [persona |-> Undefined, dial |-> Undefined, out |-> Null]

ServerAtRest ==
    /\ pc = "idle"
    /\ stage = "none"
    /\ req = NoRequest
    /\ res = NoResponse
    /\ sent = 0
    /\ outbound = Undefined
    /\ oaiRes = Undefined
    /\ logged = Undefined

\* the two startup settings, read once from the environment (lines 155, 198)
EnvKeyValues == { Undefined, Str(<<>>), Str(<<"s","k","-","t","e","s","t">>) }  \* "sk-test"

Startup ==
    /\ \E e \in EnvFlagValues : ALLOW_LOCAL_FILE = AllowLocalFileOf(e)
    /\ OPENAI_API_KEY \in EnvKeyValues

---------------------------------------------------------------------------
(* The origin callback on its own: every origin below, both flag settings *)

GateSchemes == { <<"h","t","t","p","s",":","/","/">>, <<"h","t","t","p",":","/","/">> }  \* "https://", "http://"
GateLabels == { <<"s","u","b">>, <<"a",".","b">>, <<"e","v","i","l">>, <<"s","t","a","t","i","c","1">>, <<"w","w","w">>, <<"*">>, <<"e","v","i","l",".","i","o","/","x">>, <<"e","v","i","l",".","i","o",":","8">> }  \* "sub", "a.b", "evil", "static1", "www", "*", "evil.io/x", "evil.io:8"
GateDots == { <<>>, <<".">> }  \* "."
GateHosts == { <<"s","q","u","a","r","e","s","p","a","c","e",".","c","o","m">>, <<"s","q","u","a","r","e","s","p","a","c","e","-","c","d","n",".","c","o","m">>, <<"e","s","k","o","l","a",".","c","o","m">>, <<"s","q","u","a","r","e","s","p","a","c","e",".","c","o","m",".","e","v","i","l",".","i","o">> }  \* "squarespace.com", "squarespace-cdn.com", "eskola.com", "squarespace.com.evil.io"

GateOrigins ==
    { Undefined, Str(<<>>), Str(<<"n","u","l","l">>), Str(<<"h","t","t","p",":","/","/","l","o","c","a","l","h","o","s","t",":","3","0","0","0">>),  \* "null", "http://localhost:3000"
      Str(<<"h","t","t","p",":","/","/","1","2","7",".","0",".","0",".","1",":","5","5","0","0">>), Str(<<"h","t","t","p",":","/","/","l","o","c","a","l","h","o","s","t",":","5","5","0","0">>), Str(<<"f","i","l","e",":","/","/">>) }  \* "http://127.0.0.1:5500", "http://localhost:5500", "file://"
    \cup { Str(sc \o h) : sc \in GateSchemes, h \in GateHosts }
    \cup { Str(sc \o lb \o dt \o h) : sc \in GateSchemes, lb \in GateLabels, dt \in GateDots, h \in GateHosts }

InitGate ==
    /\ Startup
    /\ ServerAtRest
    /\ \E o \in GateOrigins : gate = [origin |-> o, verdict |-> "pending"]
    /\ hint = NoHint
    /\ tune = NoTune

\* cors calls the origin callback with the request's Origin header
CorsOrigin ==
    /\ gate.verdict = "pending"
    /\ gate' = [gate EXCEPT !.verdict = IF OriginAllowed(gate.origin) THEN "allowed" ELSE "blocked"]
    /\ UNCHANGED <<ALLOW_LOCAL_FILE, OPENAI_API_KEY, pc, stage, req, res, sent, outbound, oaiRes, logged, hint, tune>>

NextGate == CorsOrigin

SpecGate == InitGate /\ [][NextGate]_vars

---------------------------------------------------------------------------
(* antiRepeatList on its own *)

\* longest message list tried
MaxHintMsgs == 7

\* length of the long reply
LongLen == 700

LongReply == [i \in 1..LongLen |-> "x"]

Message(role, content) == Obj((<<"r","o","l","e">> :> Str(role)) @@ (<<"c","o","n","t","e","n","t">> :> Str(content)))  \* "role", "content"

HintEntries ==
    { Message(<<"a","s","s","i","s","t","a","n","t">>, <<"o","k">>), Message(<<"a","s","s","i","s","t","a","n","t">>, LongReply), Message(<<"u","s","e","r">>, <<"h","e","l","l","o">>) }  \* "assistant", "ok", "assistant", "user", "hello"

InitHint ==
    /\ Startup
    /\ ServerAtRest
    /\ gate = NoGate
    /\ \E n \in 0..MaxHintMsgs : \E ms \in [1..n -> HintEntries] : hint = [messages |-> ms, out |-> Null]
    /\ tune = NoTune

CallAntiRepeatList ==
    /\ hint.out = Null
    /\ hint' = [hint EXCEPT !.out = Str(antiRepeatList(hint.messages, DefaultMaxChars))]
    /\ UNCHANGED <<ALLOW_LOCAL_FILE, OPENAI_API_KEY, pc, stage, req, res, sent, outbound, oaiRes, logged, gate, tune>>

NextHint == CallAntiRepeatList

SpecHint == InitHint /\ [][NextHint]_vars

---------------------------------------------------------------------------
(* receptivityTuning on its own *)

PersonaKeys == { <<"c","o","l","d","_","p","r","o","s","p","e","c","t">>, <<"q","u","a","l","i","f","i","e","d","_","l","e","a","d">>, <<"e","x","i","s","t","i","n","g","_","c","u","s","t","o","m","e","r">> }  \* "cold_prospect", "qualified_lead", "existing_customer"

TunePersonas ==
    { Str(k) : k \in PersonaKeys } \cup { Str(<<"v","i","p">>), Str(<<"c","o","n","s","t","r","u","c","t","o","r">>), Str(<<"_","_","p","r","o","t","o","_","_">>), Undefined }  \* "vip", "constructor", "__proto__"

\* dials from -1 up to this number are tried, in steps of one half
MaxDial == 7

TuneDials ==
    { Undefined, Null, Bool(TRUE), Bool(FALSE), Obj(<<>>),
      Str(<<>>), Str(<<"a","b","c">>), Str(<<"2">>), Str(<<"-","1">>), Str(<<"7">>), Str(<<"1",".","5">>) }  \* "abc", "2", "-1", "7", "1.5"
    \cup { Num(h) : h \in (-Scale)..(MaxDial * Scale) }

InitTune ==
    /\ Startup
    /\ ServerAtRest
    /\ gate = NoGate
    /\ hint = NoHint
    /\ \E p \in TunePersonas : \E d \in TuneDials : tune = [persona |-> p, dial |-> d, out |-> Null]

CallReceptivityTuning ==
    /\ tune.out = Null
    /\ tune' = [tune EXCEPT !.out = receptivityTuning(tune.persona, tune.dial)]
    /\ UNCHANGED <<ALLOW_LOCAL_FILE, OPENAI_API_KEY, pc, stage, req, res, sent, outbound, oaiRes, logged, gate, hint>>

NextTune == CallReceptivityTuning

SpecTune == InitTune /\ [][NextTune]_vars

---------------------------------------------------------------------------
(* POST /chat, lines 238-332, behind express.json() (line 152), cors (lines *)
(* 168-183) and the error middleware (lines 185-190)                        *)

\* process.env.MODEL is left unset (line 199)
MODEL == Or(Undefined, Str(<<"g","p","t","-","3",".","5","-","t","u","r","b","o">>))  \* "gpt-3.5-turbo"

OPENAI_ROLES == { Str(<<"s","y","s","t","e","m">>), Str(<<"a","s","s","i","s","t","a","n","t">>), Str(<<"u","s","e","r">>) }  \* "system", "assistant", "user"

\* the persona directives, each written by its first words (lines 260-275)
basePersona ==
    ( <<"c","o","l","d","_","p","r","o","s","p","e","c","t">> :> Str(<<"K","e","e","p"," ","i","t"," ","s","h","o","r","t"," ","(","o","f","t","e","n"," ","1"," ","s","e","n","t","e","n","c","e",")","."," ","G","u","a","r","d","e","d",","," ","b","u","s","y",","," ","s","k","e","p","t","i","c","a","l",".">>) )  \* "cold_prospect", "Keep it short (often 1 sentence). Guarded, busy, skeptical."
    @@ ( <<"q","u","a","l","i","f","i","e","d","_","l","e","a","d">> :> Str(<<"E","n","g","a","g","e","d"," ","b","u","t"," ","d","i","s","c","e","r","n","i","n","g",".">>) )  \* "qualified_lead", "Engaged but discerning."
    @@ ( <<"e","x","i","s","t","i","n","g","_","c","u","s","t","o","m","e","r">> :> Str(<<"F","r","i","e","n","d","l","y"," ","a","n","d"," ","p","r","a","c","t","i","c","a","l",";"," ","r","e","f","e","r","e","n","c","e"," ","p","r","i","o","r"," ","w","o","r","k","/","i","n","s","p","e","c","t","i","o","n","s",".">>) )  \* "existing_customer", "Friendly and practical; reference prior work/inspections."

Json(status, body) == [status |-> status, body |-> body]

MissingKeyBody == Obj(<<"e","r","r","o","r">> :> Str(<<"M","i","s","s","i","n","g"," ","O","P","E","N","A","I","_","A","P","I","_","K","E","Y"," ","o","n"," ","t","h","e"," ","s","e","r","v","e","r",".">>))  \* "error", "Missing OPENAI_API_KEY on the server."
InvalidPayloadBody ==
    Obj(<<"e","r","r","o","r">> :> Str(<<"I","n","v","a","l","i","d"," ","p","a","y","l","o","a","d","."," ","E","x","p","e","c","t","e","d"," ","{"," ","m","e","s","s","a","g","e","s",":"," ","[","]",","," ","s","c","e","n","a","r","i","o",":"," ","{"," ","n","a","m","e",","," ","c","o","m","p","a","n","y",","," ","p","e","r","s","o","n","a"," ","}",","," ","r","e","c","e","p","t","i","v","i","t","y",","," ","s","t","y","l","e"," ","}">>))  \* "error", "Invalid payload. Expected { messages: [], scenario: { name, company, persona }, receptivity, style }"
ServerErrorBody == Obj(<<"e","r","r","o","r">> :> Str(<<"S","e","r","v","e","r"," ","e","r","r","o","r">>))  \* "error", "Server error"
ServerErrorLeaks(err) == Obj(<<"e","r","r","o","r">> :> Str(err.message))  \* "error"
ApiErrorBody(data) == Obj((<<"e","r","r","o","r">> :> Str(<<"O","p","e","n","A","I"," ","A","P","I"," ","e","r","r","o","r">>)) @@ (<<"d","e","t","a","i","l","s">> :> data))  \* "error", "OpenAI API error", "details"
CorsBlockedBody(origin) == Obj((<<"e","r","r","o","r">> :> Str(<<"C","O","R","S"," ","b","l","o","c","k","e","d">>)) @@ (<<"o","r","i","g","i","n">> :> Or(origin, Null)))  \* "error", "CORS blocked", "origin"

\* an Error object: its message, and the status body-parser attaches
Error(message, status) == [t |-> "error", message |-> message, status |-> status]

\* express.json(), line 152: the decoded body, or the error it passes to next()
JsonMiddleware(raw) ==
    IF raw.kind = "malformed" THEN [err |-> Error(raw.message, 400), body |-> Undefined]
    ELSE [err |-> Null, body |-> raw.value]

\* lines 170-181: the error the origin callback passes to cb, Null when it allows
CorsMiddleware(origin) ==
    IF OriginAllowed(origin) THEN Null
    ELSE Error(<<"C","O","R","S"," ","b","l","o","c","k","e","d"," ","f","o","r"," ","o","r","i","g","i","n",":"," ">> \o StringOf(origin), 0)  \* "CORS blocked for origin: "

\* lines 185-190; next(err) ends in the framework's own error page, which
\* answers with the error's status and shows the error
ErrorMiddleware(err, origin) ==
    IF RegExpTest(<<"C","O","R","S"," ","b","l","o","c","k","e","d">>, err.message)  \* "CORS blocked"
    THEN Json(403, CorsBlockedBody(origin))
    ELSE [status |-> IF err.status = 0 THEN 500 ELSE err.status,
          body |-> [t |-> "html", shows |-> err.message]]

PayloadInvalidNoCompany(messages, scenario) ==
    \/ messages.t # "array"
    \/ ~Truthy(OptGet(scenario, <<"n","a","m","e">>))  \* "name"
    \/ ~Truthy(OptGet(scenario, <<"p","e","r","s","o","n","a">>))  \* "persona"
\* line 243
PayloadInvalid(messages, scenario) ==
    \/ messages.t # "array"
    \/ ~Truthy(OptGet(scenario, <<"n","a","m","e">>))  \* "name"
    \/ ~Truthy(OptGet(scenario, <<"c","o","m","p","a","n","y">>))  \* "company"
    \/ ~Truthy(OptGet(scenario, <<"p","e","r","s","o","n","a">>))  \* "persona"

\* m.role of an entry m throws a TypeError when m is null
RoleThrows(m) == m.t \in {"null", "undefined"}

SanitizeKeepsAll(messages) == messages
\* lines 250-252: filter by role, then keep role and content alone
Sanitize(messages) ==
    LET kept == SelectSeq(messages, LAMBDA m : OptGet(m, <<"r","o","l","e">>) \in OPENAI_ROLES)  \* "role"
    IN  [i \in 1..Len(kept) |->
            Obj((<<"r","o","l","e">> :> OptGet(kept[i], <<"r","o","l","e">>)) @@ (<<"c","o","n","t","e","n","t">> :> OptGet(kept[i], <<"c","o","n","t","e","n","t">>)))]  \* "role", "role", "content", "content"

\* JSON.stringify of an object leaves out the properties whose value is undefined
Stringify(o) ==
    IF o.t = "object"
    THEN Obj([k \in { f \in DOMAIN o.fields : o.fields[f].t # "undefined" } |-> o.fields[k]])
    ELSE o

\* line 258, in hundredths: Math.max(0, Math.min(0.35, Number(style?.drift || 0))) * 100
DriftPercent(style) ==
    LET n == ToNumber(Or(OptGet(style, <<"d","r","i","f","t">>), Num(0)))  \* "drift"
        p == IF n.t = "NaN" THEN NaN ELSE Num(n.halves * 100)
    IN  MathMax(Num(0), MathMin(Num(35 * Scale), p))

\* lines 277-304: the template, as the values it interpolates
SystemPrompt(scenario, receptivity, style, diversityBlock) ==
    [ name |-> StringOf(OptGet(scenario, <<"n","a","m","e">>)),  \* "name"
      company |-> StringOf(OptGet(scenario, <<"c","o","m","p","a","n","y">>)),  \* "company"
      persona |-> StringOf(Or(Get(basePersona, PropertyKey(OptGet(scenario, <<"p","e","r","s","o","n","a">>))),  \* "persona"
                             basePersona[<<"c","o","l","d","_","p","r","o","s","p","e","c","t">>])),  \* "cold_prospect"
      current |-> StringOf(receptivity),
      tuning |-> StringOf(receptivityTuning(OptGet(scenario, <<"p","e","r","s","o","n","a">>), receptivity)),  \* "persona"
      seed |-> StringOf(Or(OptGet(style, <<"s","e","e","d">>), Str(<<"s","e","s","s","i","o","n">>))),  \* "seed", "session"
      quirk |-> StringOf(Or(OptGet(style, <<"q","u","i","r","k">>), Str(<<"c","u","r","t"," ","a","n","d"," ","t","o"," ","t","h","e"," ","p","o","i","n","t">>))),  \* "quirk", "curt and to the point"
      drift |-> StringOf(DriftPercent(style)),
      avoid |-> diversityBlock ]

\* lines 306-323
OutboundCall(systemPrompt, sanitizedMessages) ==
    [ url |-> <<"h","t","t","p","s",":","/","/","a","p","i",".","o","p","e","n","a","i",".","c","o","m","/","v","1","/","c","h","a","t","/","c","o","m","p","l","e","t","i","o","n","s">>,  \* "https://api.openai.com/v1/chat/completions"
      authorization |-> <<"B","e","a","r","e","r"," ">> \o StringOf(OPENAI_API_KEY),  \* "Bearer "
      model |-> MODEL,
      temperature |-> "0.98", top_p |-> "0.9", presence_penalty |-> "0.9", frequency_penalty |-> "0.7",
      messages |-> << Obj((<<"r","o","l","e">> :> Str(<<"s","y","s","t","e","m">>)) @@ (<<"c","o","n","t","e","n","t">> :> systemPrompt)) >>  \* "role", "system", "content"
                      \o [i \in 1..Len(sanitizedMessages) |-> Stringify(sanitizedMessages[i])] ]

PrecheckPayloadFirst(messages, scenario) ==
    IF PayloadInvalid(messages, scenario) THEN "invalid"
    ELSE IF ~Truthy(OPENAI_API_KEY) THEN "nokey"
    ELSE "ok"
\* lines 240-247: the credential check, then the payload check
Precheck(messages, scenario) ==
    IF ~Truthy(OPENAI_API_KEY) THEN "nokey"
    ELSE IF PayloadInvalid(messages, scenario) THEN "invalid"
    ELSE "ok"

CatchLeaks(err) == Json(500, ServerErrorLeaks(err))
\* lines 328-331: what the catch block answers; err goes to console.error only
Catch(err) == Json(500, ServerErrorBody)

RelayPassesStatus(ok, data) == Json(200, IF ok THEN data ELSE ApiErrorBody(data))
\* lines 326-327
Relay(ok, data) == IF ~ok THEN Json(500, ApiErrorBody(data)) ELSE Json(200, data)

\* lines 239-323 and 328-331: the handler up to its first await.  res is the
\* response it sends, call the request it hands to fetch, err what the catch
\* block logs.
ChatHandler(body) ==
    LET b           == Or(body, Obj(<<>>))
        messages    == OptGet(b, <<"m","e","s","s","a","g","e","s">>)  \* "messages"
        scenario    == OptGet(b, <<"s","c","e","n","a","r","i","o">>)  \* "scenario"
        receptivity == OptGet(b, <<"r","e","c","e","p","t","i","v","i","t","y">>)  \* "receptivity"
        style       == OptGet(b, <<"s","t","y","l","e">>)  \* "style"
        check       == Precheck(messages, scenario)
        thrown      == Error(<<"T","y","p","e","E","r","r","o","r",":"," ","C","a","n","n","o","t"," ","r","e","a","d"," ","p","r","o","p","e","r","t","i","e","s"," ","o","f"," ","n","u","l","l"," ","(","r","e","a","d","i","n","g"," ","'","r","o","l","e","'",")">>, 0)  \* "TypeError: Cannot read properties of null (reading 'role')"
    IN  IF check = "nokey"
        THEN [res |-> Json(500, MissingKeyBody), call |-> Undefined, err |-> Undefined]
        ELSE IF check = "invalid"
        THEN [res |-> Json(400, InvalidPayloadBody), call |-> Undefined, err |-> Undefined]
        ELSE IF \E i \in 1..Len(messages.items) : RoleThrows(messages.items[i])
        THEN [res |-> Catch(thrown), call |-> Undefined, err |-> thrown]
        ELSE LET sanitizedMessages == Sanitize(messages.items)
                 diversityBlock    == antiRepeatList(sanitizedMessages, DefaultMaxChars)
                 systemPrompt      == SystemPrompt(scenario, receptivity, style, diversityBlock)
             IN  [res |-> NoResponse, call |-> OutboundCall(systemPrompt, sanitizedMessages),
                  err |-> Undefined]

---------------------------------------------------------------------------
(* The requests tried *)

\* longest messages array tried
MaxMsgs == 2

ChatOrigins ==
    { Undefined, Str(<<"h","t","t","p","s",":","/","/","s","u","b",".","s","q","u","a","r","e","s","p","a","c","e",".","c","o","m">>), Str(<<"h","t","t","p","s",":","/","/","e","v","i","l","s","q","u","a","r","e","s","p","a","c","e",".","c","o","m">>), Str(<<"n","u","l","l">>) }  \* "https://sub.squarespace.com", "https://evilsquarespace.com", "null"

ChatEntries ==
    { Null,
      Message(<<"a","s","s","i","s","t","a","n","t">>, <<"h","i">>),  \* "assistant", "hi"
      Message(<<"s","y","s","t","e","m">>, <<"b","e"," ","b","r","i","e","f">>),  \* "system", "be brief"
      Obj((<<"r","o","l","e">> :> Str(<<"u","s","e","r">>)) @@ (<<"c","o","n","t","e","n","t">> :> Str(<<"h","e","l","l","o">>)) @@ (<<"t","s">> :> Num(2))),  \* "role", "user", "content", "hello", "ts"
      Message(<<"c","o","a","c","h">>, <<"t","i","p">>) }  \* "coach", "tip"

ChatMessages ==
    { Undefined, Str(<<"h","i">>) }  \* "hi"
    \cup { Arr(ms) : ms \in UNION { [1..n -> ChatEntries] : n \in 0..MaxMsgs } }

Scenario(name, company, persona) ==
    Obj((<<"n","a","m","e">> :> name) @@ (<<"c","o","m","p","a","n","y">> :> company) @@ (<<"p","e","r","s","o","n","a">> :> persona))  \* "name", "company", "persona"

ChatScenarios ==
    { Undefined, Null }
    \cup { Scenario(Str(<<"A","n","n">>), Str(<<"A","c","m","e">>), p) :  \* "Ann", "Acme"
             p \in { Str(k) : k \in PersonaKeys } \cup { Str(<<"v","i","p">>), Str(<<"c","o","n","s","t","r","u","c","t","o","r">>) } }  \* "vip", "constructor"
    \cup { Scenario(Undefined, Str(<<"A","c","m","e">>), Str(<<"c","o","l","d","_","p","r","o","s","p","e","c","t">>)),  \* "Acme", "cold_prospect"
           Scenario(Str(<<>>), Str(<<"A","c","m","e">>), Str(<<"c","o","l","d","_","p","r","o","s","p","e","c","t">>)),  \* "Acme", "cold_prospect"
           Scenario(Str(<<"A","n","n">>), Undefined, Str(<<"c","o","l","d","_","p","r","o","s","p","e","c","t">>)),  \* "Ann", "cold_prospect"
           Scenario(Str(<<"A","n","n">>), Str(<<>>), Str(<<"c","o","l","d","_","p","r","o","s","p","e","c","t">>)),  \* "Ann", "cold_prospect"
           Scenario(Str(<<"A","n","n">>), Str(<<"A","c","m","e">>), Undefined) }  \* "Ann", "Acme"

ChatDials == { Undefined, Num(2 * Scale), Num(3) }

ChatStyles ==
    { Undefined,
      Obj((<<"q","u","i","r","k">> :> Str(<<"w","r","y">>)) @@ (<<"s","e","e","d">> :> Str(<<"s","1">>)) @@ (<<"d","r","i","f","t">> :> Num(1))) }  \* "quirk", "wry", "seed", "s1", "drift"

\* what the client wrote as the request body: nothing, text that is no JSON
\* (with the message body-parser's error then carries), or a JSON document
RawBodies ==
    { [kind |-> "json", value |-> Undefined],
      [kind |-> "json", value |-> Arr(<<>>)],
      [kind |-> "malformed", message |-> <<"U","n","e","x","p","e","c","t","e","d"," ","t","o","k","e","n"," ","}"," ","i","n"," ","J","S","O","N"," ","a","t"," ","p","o","s","i","t","i","o","n"," ","1">>],  \* "Unexpected token } in JSON at position 1"
      [kind |-> "malformed", message |-> <<"U","n","e","x","p","e","c","t","e","d"," ","t","o","k","e","n"," ","'","C","'",","," ","'","C","O","R","S"," ","b","l","o","c","k","e","d","'"," ","i","s"," ","n","o","t"," ","v","a","l","i","d"," ","J","S","O","N">>] }  \* "Unexpected token 'C', 'CORS blocked' is not valid JSON"
    \cup { [kind |-> "json",
            value |-> Obj((<<"m","e","s","s","a","g","e","s">> :> m) @@ (<<"s","c","e","n","a","r","i","o">> :> sc)  \* "messages", "scenario"
                          @@ (<<"r","e","c","e","p","t","i","v","i","t","y">> :> d) @@ (<<"s","t","y","l","e">> :> st))] :  \* "receptivity", "style"
             m \in ChatMessages, sc \in ChatScenarios, d \in ChatDials, st \in ChatStyles }

\* what the completion endpoint may answer
UpstreamStatuses == { 200, 429, 503 }

\* a JSON document, and a body that is none (a gateway's HTML page)
UpstreamBodies ==
    { [kind |-> "json", value |-> Obj(<<"i","d">> :> Str(<<"c","h","a","t","c","m","p","l","-","1">>))],  \* "id", "chatcmpl-1"
      [kind |-> "malformed", message |-> <<"U","n","e","x","p","e","c","t","e","d"," ","t","o","k","e","n"," ","<"," ","i","n"," ","J","S","O","N"," ","a","t"," ","p","o","s","i","t","i","o","n"," ","0">>] }  \* "Unexpected token < in JSON at position 0"

---------------------------------------------------------------------------
(* The server *)

Init ==
    /\ Startup
    /\ ServerAtRest
    /\ gate = NoGate
    /\ hint = NoHint
    /\ tune = NoTune

Fixed == <<ALLOW_LOCAL_FILE, OPENAI_API_KEY, gate, hint, tune>>

\* A POST /chat request with the given Origin header and any of the bodies
\* runs through express.json(), cors and the handler up to the handler's
\* first await.  (The origin callback's verdict is computed once for all the
\* bodies; an error of express.json() comes before it.)
PostChat(origin) ==
    /\ pc = "idle"
    /\ \E corsErr \in { CorsMiddleware(origin) } : \E raw \in RawBodies :
       \E parsed \in { JsonMiddleware(raw) } :
       \E err \in { IF parsed.err # Null THEN parsed.err ELSE corsErr } :
           /\ req' = [origin |-> origin, body |-> raw]
           /\ stage' = IF parsed.err # Null THEN "json" ELSE IF err # Null THEN "cors" ELSE "chat"
           /\ IF err # Null
              THEN /\ res' = ErrorMiddleware(err, origin)
                   /\ sent' = sent + 1
                   /\ pc' = "sent"
                   /\ UNCHANGED <<outbound, logged>>
              ELSE \E h \in { ChatHandler(parsed.body) } :
                   IF h.call = Undefined
                   THEN /\ res' = h.res
                        /\ sent' = sent + 1
                        /\ logged' = h.err
                        /\ pc' = "sent"
                        /\ UNCHANGED outbound
                   ELSE /\ outbound' = h.call
                        /\ pc' = "awaitFetch"
                        /\ UNCHANGED <<res, sent, logged>>
    /\ UNCHANGED <<oaiRes, Fixed>>

\* await fetch(...) rejects: the catch block answers
FetchRejects ==
    /\ pc = "awaitFetch"
    /\ LET err == Error(<<"F","e","t","c","h","E","r","r","o","r",":"," ","r","e","q","u","e","s","t"," ","t","o"," ","h","t","t","p","s",":","/","/","a","p","i",".","o","p","e","n","a","i",".","c","o","m"," ","f","a","i","l","e","d">>, 0)  \* "FetchError: request to https://api.openai.com failed"
       IN  /\ logged' = err
           /\ res' = Catch(err)
    /\ sent' = sent + 1
    /\ pc' = "sent"
    /\ UNCHANGED <<stage, req, outbound, oaiRes, Fixed>>

\* await fetch(...) resolves with the endpoint's status line and body
FetchResolves(status, text) ==
    /\ pc = "awaitFetch"
    /\ oaiRes' = [status |-> status, ok |-> status \in 200..299, text |-> text]
    /\ pc' = "awaitJson"
    /\ UNCHANGED <<stage, req, res, sent, outbound, logged, Fixed>>

\* lines 325-331: await oaiRes.json(), then the answer to the caller
ReadUpstreamBody ==
    /\ pc = "awaitJson"
    /\ IF oaiRes.text.kind = "malformed"
       THEN LET err == Error(oaiRes.text.message, 0)
            IN  /\ logged' = err
                /\ res' = Catch(err)
       ELSE /\ res' = Relay(oaiRes.ok, oaiRes.text.value)
            /\ UNCHANGED logged
    /\ sent' = sent + 1
    /\ pc' = "sent"
    /\ UNCHANGED <<stage, req, outbound, oaiRes, Fixed>>

\* the request is over; nothing of it stays in the server
Finish ==
    /\ pc = "sent"
    /\ pc' = "idle"
    /\ stage' = "none"
    /\ req' = NoRequest
    /\ res' = NoResponse
    /\ sent' = 0
    /\ outbound' = Undefined
    /\ oaiRes' = Undefined
    /\ logged' = Undefined
    /\ UNCHANGED Fixed

Next ==
    \/ \E origin \in ChatOrigins : PostChat(origin)
    \/ FetchRejects
    \/ \E status \in UpstreamStatuses : \E text \in UpstreamBodies : FetchResolves(status, text)
    \/ ReadUpstreamBody
    \/ Finish

Spec == Init /\ [][Next]_vars

---------------------------------------------------------------------------
(* Properties of the origin gate, under SpecGate *)

GateDecided == gate.verdict \in {"allowed", "blocked"}

StarAt(o) == CHOOSE i \in 1..Len(o) : o[i] = "*"

\* s is the text of o before its "*", then anything, then the text after it
WildcardFits(o, s) ==
    LET pre == SubSeq(o, 1, StarAt(o) - 1)
        suf == SubSeq(o, StarAt(o) + 1, Len(o))
    IN  /\ Len(s) >= Len(pre) + Len(suf)
        /\ SubSeq(s, 1, Len(pre)) = pre
        /\ SubSeq(s, Len(s) - Len(suf) + 1, Len(s)) = suf

\* what "*" stands for when s fits o
WildcardPart(o, s) == SubSeq(s, StarAt(o), Len(s) - (Len(o) - StarAt(o)))

ListedOrigin(s) ==
    \E k \in 1..Len(ALLOWED_ORIGINS) :
        \/ ALLOWED_ORIGINS[k] = s
        \/ /\ "*" \in { ALLOWED_ORIGINS[k][i] : i \in 1..Len(ALLOWED_ORIGINS[k]) }
           /\ WildcardFits(ALLOWED_ORIGINS[k], s)

\* C4: the gate allows a request exactly when no origin is present (the
\* header is absent or empty), or the origin equals an entry of
\* ALLOWED_ORIGINS, or it fits an entry with "*" read as "any text" between
\* the entry's literal beginning and end.  Every production entry is allowed,
\* https://sub.squarespace.com is allowed and https://evilsquarespace.com is
\* denied.
C4_OriginGate ==
    GateDecided =>
        /\ gate.verdict = "allowed"
             <=> (gate.origin \in {Undefined, Str(<<>>)} \/ ListedOrigin(gate.origin.s))
        /\ (\E k \in 1..Len(PROD_ALLOWED_ORIGINS) : gate.origin = Str(PROD_ALLOWED_ORIGINS[k]))
             => gate.verdict = "allowed"
        /\ gate.origin = Str(<<"h","t","t","p","s",":","/","/","s","u","b",".","s","q","u","a","r","e","s","p","a","c","e",".","c","o","m">>) => gate.verdict = "allowed"  \* "https://sub.squarespace.com"
        /\ gate.origin = Str(<<"h","t","t","p","s",":","/","/","e","v","i","l","s","q","u","a","r","e","s","p","a","c","e",".","c","o","m">>) => gate.verdict = "blocked"  \* "https://evilsquarespace.com"

\* C4 witness: the subdomain origin went through the gate and was allowed
C4_Witness ==
    /\ gate.verdict = "allowed"
    /\ gate.origin = Str(<<"h","t","t","p","s",":","/","/","s","u","b",".","s","q","u","a","r","e","s","p","a","c","e",".","c","o","m">>)  \* "https://sub.squarespace.com"

HostDelimiters == { ".", "/", ":", "?", "#" }

WildcardEntries ==
    { PROD_ALLOWED_ORIGINS[k] : k \in { j \in 1..Len(PROD_ALLOWED_ORIGINS) : includes(PROD_ALLOWED_ORIGINS[j], "*") } }

\* C10: an origin allowed through a wildcard entry has a single DNS label in
\* the place of "*": a non-empty run of characters with no host delimiter.
C10_WildcardIsOneLabel ==
    (GateDecided /\ gate.verdict = "allowed" /\ gate.origin.t = "string") =>
        \A o \in WildcardEntries :
            (WildcardFits(o, gate.origin.s) /\ gate.origin.s \notin Range(PROD_ALLOWED_ORIGINS)) =>
                LET label == WildcardPart(o, gate.origin.s)
                IN  /\ label # <<>>
                    /\ \A i \in 1..Len(label) : label[i] \notin HostDelimiters

---------------------------------------------------------------------------
(* Properties of antiRepeatList, under SpecHint *)

AssistantIndexes(ms) == { i \in 1..Len(ms) : ms[i].fields[<<"r","o","l","e">>] = Str(<<"a","s","s","i","s","t","a","n","t">>) }  \* "role", "assistant"

\* the content of the newest assistant entry
NewestReply(ms) ==
    LET n == CHOOSE i \in AssistantIndexes(ms) : \A j \in AssistantIndexes(ms) : j <= i
    IN  ms[n].fields[<<"c","o","n","t","e","n","t">>].s  \* "content"

IsPrefix(p, s) == Len(p) <= Len(s) /\ SubSeq(s, 1, Len(p)) = p

IsWindowOf(w, s) == \E k \in 1..(Len(s) - Len(w) + 1) : SubSeq(s, k, k + Len(w) - 1) = w

\* C1: no assistant entry gives "(none)"; a joined text of at most 1200
\* characters is the hint; a longer one is cut to exactly 1200 characters that
\* keep the newest assistant content: all of it, at the front, when it fits,
\* and nothing but it when it does not.
C1_HintKeepsNewest ==
    hint.out # Null =>
        LET ms     == hint.messages
            joined == JoinedText(ms)
        IN  /\ AssistantIndexes(ms) = {} => hint.out = Str(<<"(","n","o","n","e",")">>)  \* "(none)"
            /\ (joined # <<>> /\ Len(joined) <= DefaultMaxChars) => hint.out = Str(joined)
            /\ Len(joined) > DefaultMaxChars =>
                   /\ Len(hint.out.s) = DefaultMaxChars
                   /\ IF Len(NewestReply(ms)) <= DefaultMaxChars
                      THEN IsPrefix(NewestReply(ms), hint.out.s)
                      ELSE IsWindowOf(hint.out.s, NewestReply(ms))

---------------------------------------------------------------------------
(* Properties of receptivityTuning, under SpecTune *)

\* the table the claim selects: the persona's own, cold_prospect's otherwise
ClaimedTable(persona) ==
    IF persona.t = "string" /\ persona.s \in PersonaKeys
    THEN ToneMap[persona.s].items
    ELSE ToneMap[<<"c","o","l","d","_","p","r","o","s","p","e","c","t">>].items  \* "cold_prospect"

\* the index the claim selects for a dial that is a number, absent or no numeral
ClaimedLevel(dial) ==
    IF dial.t = "number"
    THEN (IF dial.halves < 0 THEN 0 ELSE IF dial.halves > 3 * Scale THEN 3 ELSE dial.halves \div Scale)
    ELSE 0

\* C5: for every persona and dial the result is one of the four directives
\* of the selected table; for a dial that is a whole number it is the entry
\* at clamp(dial, 0, 3), for an absent or non-numeric dial the entry at 0.
C5_TuningClamps ==
    tune.out # Null =>
        /\ tune.out \in Range(ClaimedTable(tune.persona))
        /\ (tune.dial.t = "number" /\ tune.dial.halves % Scale = 0)
             => tune.out = ClaimedTable(tune.persona)[ClaimedLevel(tune.dial) + 1]
        /\ tune.dial \in {Undefined, Str(<<"a","b","c">>), Obj(<<>>)}  \* "abc"
             => tune.out = ClaimedTable(tune.persona)[1]

---------------------------------------------------------------------------
(* Properties of POST /chat, under Spec *)

\* an own property of a value of the request, undefined when it has none
Own(v, k) == IF v.t = "object" /\ k \in DOMAIN v.fields THEN v.fields[k] ELSE Undefined

ReqBody == IF req.body.kind = "json" THEN req.body.value ELSE Undefined
ReqMessages == Own(ReqBody, <<"m","e","s","s","a","g","e","s">>)  \* "messages"
ReqScenario == Own(ReqBody, <<"s","c","e","n","a","r","i","o">>)  \* "scenario"
ReqName == Own(ReqScenario, <<"n","a","m","e">>)  \* "name"
ReqCompany == Own(ReqScenario, <<"c","o","m","p","a","n","y">>)  \* "company"
ReqPersona == Own(ReqScenario, <<"p","e","r","s","o","n","a">>)  \* "persona"

\* neither missing nor empty
Present(v) == v \notin {Undefined, Null, Str(<<>>)}

KeyConfigured == Present(OPENAI_API_KEY)

\* the request got past express.json() and cors, into the handler
InHandler == stage = "chat"

\* C3: in the handler the credential is checked first: without
\* OPENAI_API_KEY every request that reaches the handler, whatever its
\* payload, is answered 500 with the fixed body, never 400, and nothing is
\* sent upstream; the upstream call is made only once the credential check
\* and the payload validation have both passed.
C3_CredentialFirst ==
    /\ (InHandler /\ ~KeyConfigured) =>
           /\ pc = "sent"
           /\ res = Json(500, MissingKeyBody)
           /\ outbound = Undefined
    /\ outbound # Undefined =>
           /\ InHandler
           /\ KeyConfigured
           /\ ReqMessages.t = "array"
           /\ Present(ReqName) /\ Present(ReqCompany) /\ Present(ReqPersona)

\* C3 witness: a request with an invalid payload was answered 500 for the
\* missing credential
C3_Witness ==
    /\ InHandler
    /\ ~KeyConfigured
    /\ ReqMessages.t # "array"
    /\ res.status = 500

\* C9: with the credential configured, a request whose messages is no array
\* or whose scenario.name or scenario.company is missing or empty is answered
\* 400 with the body naming the expected shape, and nothing is sent
\* upstream; an empty messages array with name, company and persona passes
\* and is relayed.
C9_PayloadValidation ==
    (InHandler /\ KeyConfigured) =>
        /\ (ReqMessages.t # "array" \/ ~Present(ReqName) \/ ~Present(ReqCompany)) =>
               /\ pc = "sent"
               /\ res = Json(400, InvalidPayloadBody)
               /\ outbound = Undefined
        /\ (ReqMessages = Arr(<<>>) /\ Present(ReqName) /\ Present(ReqCompany) /\ Present(ReqPersona)) =>
               /\ outbound # Undefined
               /\ res.status # 400

\* C9 witness: an array of messages with an empty scenario.company was
\* answered 400
C9_Witness ==
    /\ InHandler
    /\ KeyConfigured
    /\ ReqMessages.t = "array"
    /\ Present(ReqName)
    /\ ReqCompany = Str(<<>>)
    /\ res.status = 400

ForwardableIndexes(raw) ==
    { i \in 1..Len(raw) : Own(raw[i], <<"r","o","l","e">>) \in { Str(<<"s","y","s","t","e","m">>), Str(<<"a","s","s","i","s","t","a","n","t">>), Str(<<"u","s","e","r">>) } }  \* "role", "system", "assistant", "user"

\* the k-th smallest member of a set of indexes
KthOf(idx, k) == CHOOSE i \in idx : Cardinality({ j \in idx : j <= i }) = k

\* C2: what is forwarded after the system prompt is the entries of the
\* input whose role is system, assistant or user, in their order, each with
\* its role and content and nothing else; no entry of another role is
\* forwarded, and the hint is the one built from the assistant entries alone.
C2_OnlyOpenAiRolesForwarded ==
    outbound # Undefined =>
        LET raw == ReqMessages.items
            idx == ForwardableIndexes(raw)
            fwd == Tail(outbound.messages)
        IN  /\ Own(outbound.messages[1], <<"r","o","l","e">>) = Str(<<"s","y","s","t","e","m">>)  \* "role", "system"
            /\ Len(fwd) = Cardinality(idx)
            /\ \A k \in 1..Len(fwd) :
                   /\ fwd[k].t = "object"
                   /\ DOMAIN fwd[k].fields \subseteq { <<"r","o","l","e">>, <<"c","o","n","t","e","n","t">> }  \* "role", "content"
                   /\ Own(fwd[k], <<"r","o","l","e">>) = Own(raw[KthOf(idx, k)], <<"r","o","l","e">>)  \* "role", "role"
                   /\ Own(fwd[k], <<"c","o","n","t","e","n","t">>) = Own(raw[KthOf(idx, k)], <<"c","o","n","t","e","n","t">>)  \* "content", "content"
                   /\ Own(fwd[k], <<"r","o","l","e">>) # Str(<<"c","o","a","c","h">>)  \* "role", "coach"
            /\ Own(outbound.messages[1], <<"c","o","n","t","e","n","t">>).avoid  \* "content"
                   = antiRepeatList(SelectSeq(raw, LAMBDA m : Own(m, <<"r","o","l","e">>) = Str(<<"a","s","s","i","s","t","a","n","t">>)),  \* "role", "assistant"
                                    DefaultMaxChars)

\* C2 witness: a coach entry came in with one other entry, and one entry
\* went out after the system prompt
C2_Witness ==
    /\ outbound # Undefined
    /\ Len(ReqMessages.items) = 2
    /\ \E i \in 1..2 : Own(ReqMessages.items[i], <<"r","o","l","e">>) = Str(<<"c","o","a","c","h">>)  \* "role", "coach"
    /\ Len(outbound.messages) = 2

\* C6: a request with the credential configured, an array of message
\* objects, a name, a company and a persona that is a non-empty string other
\* than the three table keys is neither rejected nor ended by an exception:
\* it is relayed, with the cold_prospect directive as its persona section
\* and a directive of the cold_prospect tone table as its tone.  (Stated for
\* a receptivity that is absent or a whole number; C5 is about the others.)
C6_UnknownPersonaFallsBack ==
    ( /\ InHandler
      /\ KeyConfigured
      /\ ReqMessages.t = "array"
      /\ \A i \in 1..Len(ReqMessages.items) : ReqMessages.items[i].t = "object"
      /\ Present(ReqName) /\ Present(ReqCompany)
      /\ ReqPersona.t = "string" /\ ReqPersona.s # <<>> /\ ReqPersona.s \notin PersonaKeys
      /\ Own(ReqBody, <<"r","e","c","e","p","t","i","v","i","t","y">>).t = "number" => Own(ReqBody, <<"r","e","c","e","p","t","i","v","i","t","y">>).halves % Scale = 0 ) =>  \* "receptivity", "receptivity"
        /\ outbound # Undefined
        /\ Own(outbound.messages[1], <<"c","o","n","t","e","n","t">>).persona = basePersona[<<"c","o","l","d","_","p","r","o","s","p","e","c","t">>].s  \* "content", "cold_prospect"
        /\ Str(Own(outbound.messages[1], <<"c","o","n","t","e","n","t">>).tuning) \in Range(ToneMap[<<"c","o","l","d","_","p","r","o","s","p","e","c","t">>].items)  \* "content", "cold_prospect"

FetchRejected == pc = "sent" /\ outbound # Undefined /\ oaiRes = Undefined

UpstreamBodyMalformed == pc = "sent" /\ oaiRes # Undefined /\ oaiRes.text.kind = "malformed"

NullEntry ==
    /\ pc = "sent" /\ InHandler /\ KeyConfigured
    /\ ReqMessages.t = "array"
    /\ Present(ReqName) /\ Present(ReqCompany) /\ Present(ReqPersona)
    /\ \E i \in 1..Len(ReqMessages.items) : ReqMessages.items[i] = Null

RequestBodyMalformed == pc = "sent" /\ req.body.kind = "malformed"

\* C7 as stated: whatever exception is raised on the path of a request (the
\* outbound call fails, the request body is no JSON, the upstream body is no
\* JSON, an entry of messages is null), the answer is 500 with
\* { error: "Server error" }.
C7_AnyExceptionIs500 ==
    (FetchRejected \/ RequestBodyMalformed \/ UpstreamBodyMalformed \/ NullEntry) =>
        res = Json(500, ServerErrorBody)

C7_Caught ==
    /\ (FetchRejected \/ UpstreamBodyMalformed \/ NullEntry) =>
           /\ res = Json(500, ServerErrorBody)
           /\ logged.t # "undefined"
           /\ sent = 1
    /\ RequestBodyMalformed =>
           /\ stage = "json"
           /\ res.body # ServerErrorBody
           /\ outbound = Undefined

C7_Isolated ==
    (pc = "sent" /\ pc' = "idle") =>
        /\ ServerAtRest'
        /\ ALLOW_LOCAL_FILE' = ALLOW_LOCAL_FILE
        /\ OPENAI_API_KEY' = OPENAI_API_KEY

\* C7, amended: an exception raised inside the handler (the outbound call
\* fails, the upstream body is no JSON, an entry of messages is null) is
\* answered 500 with { error: "Server error" } and its cause goes to the log
\* alone; a request body that is no JSON never reaches the handler and is
\* answered by the error path outside it, not with { error: "Server error" };
\* and when a request is over the server is as it was at startup.
C7_HandlerExceptionIs500 == []C7_Caught /\ [][C7_Isolated]_vars

\* C7 witness: the outbound call failed and the caller got the opaque 500
C7_Witness ==
    /\ FetchRejected
    /\ res = Json(500, ServerErrorBody)

UpstreamAnswered == pc = "sent" /\ oaiRes # Undefined

\* what the endpoint sent as its body
UpstreamBody ==
    IF oaiRes.text.kind = "json" THEN oaiRes.text.value ELSE Str(oaiRes.text.message)

\* C8 as stated: once the endpoint has answered, a 4xx/5xx status gives the
\* caller 500 with { error: "OpenAI API error", details: <upstream body> }, a
\* success status gives 200 with the upstream body, and one response is sent.
C8_UpstreamAnswerMapped ==
    UpstreamAnswered =>
        /\ sent = 1
        /\ oaiRes.status \in 400..599 => res = Json(500, ApiErrorBody(UpstreamBody))
        /\ oaiRes.status \in 200..299 => res = Json(200, UpstreamBody)

\* C8, amended: once the endpoint has answered with a body that is JSON, a
\* 4xx/5xx status gives the caller 500 with { error: "OpenAI API error",
\* details: <upstream body> } and a success status gives 200 with the
\* upstream body; a body that is no JSON gives 500 with
\* { error: "Server error" }, whatever the status.  One response is sent.
C8_UpstreamJsonMapped ==
    /\ sent <= 1
    /\ UpstreamAnswered =>
        /\ sent = 1
        /\ (oaiRes.text.kind = "json" /\ oaiRes.status \in 400..599)
               => res = Json(500, ApiErrorBody(oaiRes.text.value))
        /\ (oaiRes.text.kind = "json" /\ oaiRes.status \in 200..299)
               => res = Json(200, oaiRes.text.value)
        /\ oaiRes.text.kind # "json" => res = Json(500, ServerErrorBody)

\* C8 witness: the endpoint answered 429 with a JSON body and the caller got
\* it under details
C8_Witness ==
    /\ UpstreamAnswered
    /\ oaiRes.status = 429
    /\ oaiRes.text.kind = "json"
    /\ res = Json(500, ApiErrorBody(oaiRes.text.value))

=============================================================================
